---- MODULE Spec2Model ----
(***************************************************************************)
(* Multi-cursor match navigation of the Sublime "highlight" plugin:        *)
(*   cursor_to_matches / closest_visible / LoopLimit  (sublime_helpers.py) *)
(*   Search._next / closest_visible                   (highlight.py)       *)
(*                                                                         *)
(* A region is a pair <<begin, end>> with begin <= end; None is <<>>.      *)
(* The navigation generator is modelled as a state machine whose steps are *)
(* the generator's resumptions: each action runs the code from one         *)
(* suspension point to the next yield, return or raise.                    *)
(***************************************************************************)
EXTENDS Integers, Sequences, FiniteSets, TLC

\* ------------------------------------------------------------------ bounds
\* Length of the text buffer of the exhaustively enumerated inputs.
BufLen == 3
\* Longest cursor list and longest match list of the enumerated inputs.
MaxCursors == 2
MaxMatches == 2
\* The long inputs have LoopLimitDefault - 1 +/- BigMargin matches.
BigMargin == 2
\* Positions and list length of the unsorted inputs.
AnyPos == 2
AnyLen == 2
\* Length of the text buffer of the views Search.next is run on.
JumpBuf == 3
\* Height of the viewport of the views Search.next is run on.
ViewHeight == 2
\* Length of the text buffer of the views the highlight commands run in.
HlBuf == 2
\* The stack is pushed to StackSlots + ExtraPushes times at most.
ExtraPushes == 1
\* QuickPanelFinder calls made in a row.
MaxCalls == 4
\* Selection-modified events handled in a row.
MaxEvents == 4
\* Calls of the bookmarks API made in a row.
MaxOps == 4
\* Length of the text buffer of the inputs with room for two jumps in a row.
WideBuf == 4

\* ------------------------------------------------------- program constants
\* LoopLimit.__init__(message=None, limit=1000)
LoopLimitDefault == 1000
\* Search._next: limit = 10000
SearchLimit == 10000
\* "either there were too many items (over 10000)"
DocumentedLimit == 10000
\* VieUserStack.ALLOWED_MARKS = list('!@#$%^&*()'), VieVisualStack's list('1234567890')
StackSlots == 10

\* ----------------------------------------------------------------- regions
None == <<>>

Begin(r) == r[1]

End(r) == r[2]

Size(r) == End(r) - Begin(r)

\* sublime.Region.contains(region)
Contains(a, r) == Begin(a) <= Begin(r) /\ End(r) <= End(a)

Reverse(s) == [i \in 1..Len(s) |-> s[Len(s) + 1 - i]]

\* python: x in list
IsIn(x, s) == \E i \in 1..Len(s) : s[i] = x

\* ---------------------------------------------------------- closest_visible
RECURSIVE ScanVisible(_, _, _, _)
ScanVisible(selection, i, visible_region, inverted) ==
    IF i > Len(selection)
    THEN \* We've hit the end... loop back to the first one
         selection[1]
    ELSE LET region == selection[i]
         IN  IF Contains(visible_region, region) THEN region
             ELSE IF ~inverted /\ Begin(visible_region) <= Begin(region) THEN region
             ELSE IF inverted /\ End(visible_region) <= End(region) THEN region
             ELSE ScanVisible(selection, i + 1, visible_region, inverted)

\* Faulty variant: the one-element shortcut is lost and the scan result is dropped
closest_visible_first(selection, visible_region, inverted) ==
    IF Len(selection) = 0 THEN None
    ELSE IF visible_region = None THEN selection[1]
    ELSE selection[Len(selection)]

closest_visible(selection, visible_region, inverted) ==
    IF Len(selection) = 0 THEN None
    ELSE IF visible_region = None \/ Len(selection) = 1 THEN selection[1]
    ELSE ScanVisible(selection, 1, visible_region, inverted)

\* ------------------------------------------------------- the merge loop
\* Faulty variant: the comparisons point the other way, dropping the matches ahead
Stale_flipped(cursor, match, inverted) ==
    \/ (~inverted /\ Begin(cursor) <= Begin(match))
    \/ (inverted /\ End(cursor) >= End(match))

\* Stage 1 condition: the front match is at or before the front cursor
Stale(cursor, match, inverted) ==
    \/ (~inverted /\ Begin(cursor) >= Begin(match))
    \/ (inverted /\ End(cursor) <= End(match))

\* Stage 3 condition: the front cursor is at or before the front match
Jumps(cursor, match, inverted) ==
    \/ (~inverted /\ Begin(cursor) <= Begin(match))
    \/ (inverted /\ End(cursor) >= End(match))

\* LoopLimit.count() is called once per loop iteration: self.counter -= 1,
\* and the error is raised when the counter is <= 0. A loop that would make
\* n iterations, entered with the counter at limit, therefore raises in its
\* iteration number limit when n >= limit. counted is FALSE for the inner
\* loops of Search._next, which do not count.
Trips(n, limit, counted) == counted /\ n >= limit

\* The iterations a loop completes (the items it pops)
Popped(n, limit, counted) == IF Trips(n, limit, counted) THEN limit - 1 ELSE n

\* The counter after the loop (or at the raise)
CountedDown(n, limit, counted) ==
    IF ~counted THEN limit
    ELSE IF Trips(n, limit, counted) THEN 0
    ELSE limit - n

\* The number of iterations of "while len(s) and cond(s[0]): s.pop(0)":
\* the length of the longest prefix of s whose elements all satisfy cond; stop holds the indices of the elements
\* of s that do not satisfy it
PrefixLen(s, stop) ==
    IF stop = {} THEN Len(s)
    ELSE (CHOOSE i \in stop : \A j \in stop : i <= j) - 1

\* Stage 1: drop matches that are before the front cursor
DropStale(cursor, ms, inverted, limit, counted) ==
    LET n == PrefixLen(ms, {i \in 1..Len(ms) : ~Stale(cursor, ms[i], inverted)})
        k == Popped(n, limit, counted)
    IN  [matches |-> SubSeq(ms, k + 1, Len(ms)),
         limit |-> CountedDown(n, limit, counted),
         raised |-> Trips(n, limit, counted)]

\* Faulty variant: only the first popped cursor is compared with the visible cursor
JumpCursors_firstVisible(cs, match, inverted, visible, limit, counted) ==
    LET n == PrefixLen(cs, {i \in 1..Len(cs) : ~Jumps(cs[i], match, inverted)})
        k == Popped(n, limit, counted)
    IN  [cursors |-> SubSeq(cs, k + 1, Len(cs)),
         replaced |-> SubSeq(cs, 1, k),
         was_visible |-> k > 0 /\ cs[1] = visible,
         limit |-> CountedDown(n, limit, counted),
         raised |-> Trips(n, limit, counted)]

\* Faulty variant: replaced_cursors is overwritten by each pop instead of appended to
JumpCursors_overwrite(cs, match, inverted, visible, limit, counted) ==
    LET n == PrefixLen(cs, {i \in 1..Len(cs) : ~Jumps(cs[i], match, inverted)})
        k == Popped(n, limit, counted)
    IN  [cursors |-> SubSeq(cs, k + 1, Len(cs)),
         replaced |-> SubSeq(cs, k, k),
         was_visible |-> \E i \in 1..k : cs[i] = visible,
         limit |-> CountedDown(n, limit, counted),
         raised |-> Trips(n, limit, counted)]

\* Stage 3: pop the cursors that jump to the front match
JumpCursors(cs, match, inverted, visible, limit, counted) ==
    LET n == PrefixLen(cs, {i \in 1..Len(cs) : ~Jumps(cs[i], match, inverted)})
        k == Popped(n, limit, counted)
    IN  [cursors |-> SubSeq(cs, k + 1, Len(cs)),
         replaced |-> SubSeq(cs, 1, k),
         was_visible |-> \E i \in 1..k : cs[i] = visible,
         limit |-> CountedDown(n, limit, counted),
         raised |-> Trips(n, limit, counted)]

\* CursorMatch(cursor, region, is_visible); Search._next yields the region
\* alone (wrapped in VisibleMatch when visible), so its orig is None.
CursorMatch(cursor, region, is_visible) ==
    [orig |-> cursor, region |-> region, is_visible |-> is_visible]

\* ------------------------------------------- the generator, as a pure step
\* The generator's frame: its locals, the assignments it has yielded (out),
\* the batch of cursors popped for each of them (replaced) and where it
\* stands: pc is "created", "suspended", "returned" or "raised"; resume
\* tells a suspended generator whether it goes on at the loop head or at a
\* return statement.
NewFrame ==
    [pc |-> "created", resume |-> "loop", cursors |-> <<>>, matches |-> <<>>,
     visible_cursor |-> None, loop_match |-> None, limit |-> 0,
     out |-> <<>>, replaced |-> <<>>]

Yield(g, assignment, batch, resume_at) ==
    [g EXCEPT !.pc = "suspended", !.resume = resume_at,
              !.out = Append(@, assignment), !.replaced = Append(@, batch)]

Counted(impl) == impl = "helpers"

\* Faulty variant: the last cursor of the batch is carried
Orig_last(impl, replaced_cursors) ==
    IF impl = "helpers" /\ Len(replaced_cursors) > 0
    THEN replaced_cursors[Len(replaced_cursors)] ELSE None

\* The source cursor a yielded value carries
Orig(impl, replaced_cursors) ==
    IF impl = "helpers" /\ Len(replaced_cursors) > 0 THEN replaced_cursors[1] ELSE None

\* One pass from the loop head to the next yield, raise or the loop's exit
LoopStep(impl, g, inverted) ==
    IF ~(Len(g.matches) > 0 /\ Len(g.cursors) > 0 /\ (impl = "search" => g.limit # 0))
    THEN \* the loop is left: Search._next asserts limit != 0
         IF impl = "search" /\ g.limit = 0
         THEN [g EXCEPT !.pc = "raised"]
         ELSE [g EXCEPT !.pc = "returned"]
    ELSE IF Trips(1, g.limit, Counted(impl))
    THEN \* limit.count() at the head of the outer loop raises
         [g EXCEPT !.pc = "raised", !.limit = @ - 1]
    ELSE LET s1 == DropStale(g.cursors[1], g.matches, inverted, g.limit - 1, Counted(impl))
             g1 == [g EXCEPT !.matches = s1.matches, !.limit = s1.limit]
         IN  IF s1.raised THEN [g1 EXCEPT !.pc = "raised"]
             ELSE IF Len(s1.matches) = 0
             THEN \* Stage 2: all remaining cursors go to the looped match
                  Yield(g1, CursorMatch(None, g.loop_match, IsIn(g.visible_cursor, g.cursors)),
                        <<>>, "return")
             ELSE LET s3 == JumpCursors(g.cursors, s1.matches[1], inverted, g.visible_cursor,
                                        s1.limit, Counted(impl))
                      g3 == [g1 EXCEPT !.cursors = s3.cursors, !.limit = s3.limit]
                  IN  IF s3.raised THEN [g3 EXCEPT !.pc = "raised"]
                      ELSE Yield(g3, CursorMatch(Orig(impl, s3.replaced), s1.matches[1],
                                                 s3.was_visible),
                                 s3.replaced, "loop")

\* The list in the direction of the jump
Directed(s, inverted) == IF inverted THEN Reverse(s) ELSE s

\* The budget of the loop guard: LoopLimit(message) takes the default limit
\* of LoopLimit.__init__; Search._next sets limit = 10000
InitialLimit(impl) == IF impl = "helpers" THEN LoopLimitDefault ELSE SearchLimit

\* Faulty variant: the cursors wrap to the match nearest the end of the walk
LoopMatch_last(ms) == ms[Len(ms)]

\* loop_match = matches[0], taken from the direction-ordered list
LoopMatch(ms) == ms[1]

\* Faulty variant: an empty match list falls through to the no-cursor fallback
GenStart_yieldsOnEmpty(impl, cs_in, ms_in, vp, inverted, visible_only, budget) ==
    IF Len(ms_in) = 0
    THEN Yield(NewFrame, CursorMatch(None, None, TRUE), <<>>, "return")
    ELSE LET cs == Directed(cs_in, inverted)
             ms == Directed(ms_in, inverted)
         IN  IF Len(cs) = 0
             THEN Yield([NewFrame EXCEPT !.matches = ms],
                        CursorMatch(None, closest_visible(ms, vp, inverted), TRUE),
                        <<>>, "return")
             ELSE LET visible == closest_visible(cs, vp, inverted)
                  IN  LoopStep(impl,
                               [NewFrame EXCEPT
                                   !.cursors = IF visible_only THEN <<visible>> ELSE cs,
                                   !.matches = ms,
                                   !.visible_cursor = visible,
                                   !.loop_match = LoopMatch(ms),
                                   !.limit = budget],
                               inverted)

\* Faulty variant: find_visible_only does not narrow the cursors
GenStart_allCursors(impl, cs_in, ms_in, vp, inverted, visible_only, budget) ==
    IF Len(ms_in) = 0
    THEN \* There is no such thing as 'next'
         [NewFrame EXCEPT !.pc = "returned"]
    ELSE LET cs == Directed(cs_in, inverted)
             ms == Directed(ms_in, inverted)
         IN  IF Len(cs) = 0
             THEN Yield([NewFrame EXCEPT !.matches = ms],
                        CursorMatch(None, closest_visible(ms, vp, inverted), TRUE),
                        <<>>, "return")
             ELSE LET visible == closest_visible(cs, vp, inverted)
                  IN  LoopStep(impl,
                               [NewFrame EXCEPT
                                   !.cursors = cs,
                                   !.matches = ms,
                                   !.visible_cursor = visible,
                                   !.loop_match = LoopMatch(ms),
                                   !.limit = budget],
                               inverted)

\* The first resumption, from the function's start to its first yield, for
\* a loop guard created with the given budget
GenStart(impl, cs_in, ms_in, vp, inverted, visible_only, budget) ==
    IF Len(ms_in) = 0
    THEN \* There is no such thing as 'next'
         [NewFrame EXCEPT !.pc = "returned"]
    ELSE LET cs == Directed(cs_in, inverted)
             ms == Directed(ms_in, inverted)
         IN  IF Len(cs) = 0
             THEN Yield([NewFrame EXCEPT !.matches = ms],
                        CursorMatch(None, closest_visible(ms, vp, inverted), TRUE),
                        <<>>, "return")
             ELSE LET visible == closest_visible(cs, vp, inverted)
                  IN  LoopStep(impl,
                               [NewFrame EXCEPT
                                   !.cursors = IF visible_only THEN <<visible>> ELSE cs,
                                   !.matches = ms,
                                   !.visible_cursor = visible,
                                   !.loop_match = LoopMatch(ms),
                                   !.limit = budget],
                               inverted)

GenFirst(impl, cs_in, ms_in, vp, inverted, visible_only) ==
    GenStart(impl, cs_in, ms_in, vp, inverted, visible_only, InitialLimit(impl))

\* A later resumption of a suspended generator
GenNext(impl, g, inverted) ==
    IF g.resume = "return" THEN [g EXCEPT !.pc = "returned"]
    ELSE LoopStep(impl, g, inverted)

\* The whole call, run to its end: list(cursor_to_matches(...))
RECURSIVE Drain(_, _, _)
Drain(impl, g, inverted) ==
    IF g.pc \in {"returned", "raised"} THEN g
    ELSE Drain(impl, GenNext(impl, g, inverted), inverted)

RunToEnd(impl, cs_in, ms_in, vp, inverted, visible_only) ==
    Drain(impl, GenFirst(impl, cs_in, ms_in, vp, inverted, visible_only), inverted)

\* The same call with a loop guard of another budget
RunWithBudget(impl, cs_in, ms_in, vp, inverted, visible_only, budget) ==
    Drain(impl, GenStart(impl, cs_in, ms_in, vp, inverted, visible_only, budget), inverted)

\* ------------------------------------------------------------- Search.next
\* Faulty variant: the new cursor is put at the end of the match
CaretAt_end(region) == <<End(region), End(region)>>

\* sublime.Region(cursor.begin(), cursor.begin())
CaretAt(region) == <<Begin(region), Begin(region)>>

\* new_cursors after the for loop over the generator
NewCursors(out) == [i \in 1..Len(out) |-> CaretAt(out[i].region)]

\* new_visible after the for loop: the region of the last VisibleMatch
NewVisible(out) ==
    LET flagged == {i \in 1..Len(out) : out[i].is_visible}
    IN  IF flagged = {} THEN None
        ELSE out[CHOOSE i \in flagged : \A j \in flagged : j <= i].region

\* view.sel() after sel().clear() and sel().add(cursor) for each new cursor,
\* in a buffer of hi characters: a Selection keeps its carets sorted and
\* merges equal ones
Selected(new_cursors, hi) ==
    LET at == {Begin(new_cursors[i]) : i \in 1..Len(new_cursors)}
        taken(p) == p \in at
        places == SelectSeq([i \in 1..(hi + 1) |-> i - 1], taken)
    IN  [i \in 1..Len(places) |-> <<places[i], places[i]>>]

\* Faulty variant: the cursors are swapped whatever update_cursors says
Applied_always(s, update_cursors, new_cursors, hi, raised) ==
    IF raised THEN s ELSE Selected(new_cursors, hi)

\* The selection Search.next leaves: an error of the generator leaves the for
\* loop before the selection is touched; otherwise the cursors are swapped
\* when update_cursors is set
Applied(s, update_cursors, new_cursors, hi, raised) ==
    IF raised THEN s
    ELSE IF update_cursors THEN Selected(new_cursors, hi)
    ELSE s

\* The viewports of the size of vp in a buffer of n characters
Windows(vp, n) == {w \in (0..n) \X (0..n) : w[2] - w[1] = Size(vp)}

\* view.show(region): the view stays where it is when it shows the region
\* already, and scrolls to a place that shows the region's begin otherwise
ShowResults(vp, region, n) ==
    IF Contains(vp, region) THEN {vp}
    ELSE {w \in Windows(vp, n) : Begin(w) <= Begin(region) /\ Begin(region) <= End(w)}

\* ------------------------------------------------- HighlightPanelCommand
\* Search.reset: view.erase_regions(group_name)
reset(group) == <<>>

\* Search.add_matches: view.add_regions(group_name, regions + current_matches())
add_matches(group, regions) == regions \o group

\* Search.forwards(update_cursors=False, viewport=vp) of a search with the
\* direction inv on the regions of group: the visible regions view.show can
\* leave the view with (the view shows vis when the call is made)
Previewed(sel, group, vis, vp, inv) ==
    IF Len(group) = 0 THEN {vis}
    ELSE UNION {IF new_visible = None THEN {vis} ELSE ShowResults(vis, new_visible, JumpBuf) :
                   new_visible \in {IF new_cursor_gen.pc # "returned" THEN None
                                    ELSE NewVisible(new_cursor_gen.out) :
                                    new_cursor_gen \in {RunToEnd("search", sel, group, vp, inv, TRUE)}}}

\* Faulty variant: the typed search is shown from where the view is
on_change_viewport_kept(pn, vis) == vis

\* HighlightPanelCommand._on_change, first step:
\* self.view.set_viewport_position(self.viewport)
on_change_viewport(pn, vis) == pn.viewport

\* Faulty variant: the cancel leaves the view where the preview put it
on_cancel_viewport_kept(pn, vis) == vis

\* HighlightPanelCommand._on_cancel: where the view is after it
on_cancel_viewport(pn, vis) == IF ~pn.search THEN vis ELSE pn.viewport

\* HighlightPanelCommand._on_cancel: the temporary group after it
on_cancel_group(pn, group) == IF ~pn.search THEN group ELSE reset(group)

\* --------------------------------- ViewSearch and the highlight commands
\* No ViewSearch was made for the view: cls._ALL.get(uniq_id) is None
NoSearch == [id |-> 0, inverted |-> FALSE]

\* Faulty variant: a call that passes no direction sets the default one
search_update_defaulted(obj, direction) == [obj EXCEPT !.inverted = (direction = "backward")]

\* ViewSearch._update(inverted=None); direction is "none" when the call
\* passes no inverted
search_update(obj, direction) ==
    IF direction # "none" THEN [obj EXCEPT !.inverted = (direction = "backward")] ELSE obj

\* ViewBaseStoreMeta.__call__: the store after ViewSearch(view, ...). A
\* view without an object gets a new one (Search.__init__ with inverted, or
\* its default False); a stored one is updated. made counts the objects
\* constructed; the id of an object is its number.
ViewSearch(reg, view, direction) ==
    IF reg.all[view] = NoSearch
    THEN [reg EXCEPT !.all[view] = [id |-> reg.made + 1, inverted |-> (direction = "backward")],
                     !.made = @ + 1]
    ELSE [reg EXCEPT !.all[view] = search_update(@, direction)]

\* sublime.Region.intersects
Intersects(a, r) ==
    \/ (Begin(a) = Begin(r) /\ End(a) = End(r))
    \/ (Begin(r) > Begin(a) /\ Begin(r) < End(a))
    \/ (End(r) > Begin(a) /\ End(r) < End(a))
    \/ (Begin(a) > Begin(r) /\ Begin(a) < End(r))
    \/ (End(a) > Begin(r) /\ End(a) < End(r))

\* One turn of the for loop of Search.remove_matches: what is appended to
\* kept_matches for the match
KeptOf(match, cursor, subtract) ==
    IF Contains(cursor, match) THEN <<>>
    ELSE IF ~Intersects(cursor, match) THEN <<match>>
    ELSE IF ~subtract THEN (IF Contains(match, cursor) THEN <<>> ELSE <<match>>)
    ELSE IF Begin(cursor) >= Begin(match) /\ End(cursor) <= End(match)
    THEN << <<Begin(match), Begin(cursor)>>, <<End(cursor), End(match)>> >>
    ELSE IF Begin(cursor) < Begin(match) THEN << <<End(cursor), End(match)>> >>
    ELSE IF End(cursor) > End(match) THEN << <<Begin(match), Begin(cursor)>> >>
    ELSE <<>>

RECURSIVE KeptMatches(_, _, _)
KeptMatches(matches, cursor, subtract) ==
    IF matches = <<>> THEN <<>>
    ELSE KeptOf(Head(matches), cursor, subtract) \o KeptMatches(Tail(matches), cursor, subtract)

\* Search.remove_matches: the group after it
remove_matches(group, cursor, subtract) ==
    add_matches(reset(group), KeptMatches(group, cursor, subtract))

\* ClearHighlightCommand.run, the for loop over the cursors from the i-th on
RECURSIVE ClearUnder(_, _, _)
ClearUnder(group, cursors, i) ==
    IF i > Len(cursors) THEN group
    ELSE LET cursor == cursors[i]
             subtract_mode == Size(cursor) # 0
             widened == IF subtract_mode THEN cursor ELSE <<Begin(cursor), Begin(cursor) + 1>>
         IN  ClearUnder(remove_matches(group, widened, subtract_mode), cursors, i + 1)

\* The last position a region of the group reaches
RECURSIVE MaxEnd(_)
MaxEnd(group) ==
    IF group = <<>> THEN 0
    ELSE LET rest == MaxEnd(Tail(group))
         IN  IF End(Head(group)) >= rest THEN End(Head(group)) ELSE rest

\* Search.next(inverted=inv) with its default viewport and update_cursors:
\* the selections and visible regions it can leave the view with
Jumped(sel, group, vis, inv) ==
    IF Len(group) = 0 THEN {[sel |-> sel, visible |-> vis]}
    ELSE UNION {
           {[sel |-> Applied(sel, TRUE, NewCursors(new_cursor_gen.out), MaxEnd(group),
                             new_cursor_gen.pc # "returned"),
             visible |-> shown] :
               shown \in UNION {IF new_visible = None THEN {vis}
                                ELSE ShowResults(vis, new_visible, JumpBuf) :
                                new_visible \in {IF new_cursor_gen.pc # "returned" THEN None
                                                 ELSE NewVisible(new_cursor_gen.out)}}} :
           new_cursor_gen \in {RunToEnd("search", sel, group, vis, inv, FALSE)}}

\* ---------------------------------------------------------------- VieStack
\* window.views(): the views of the window, in order
ViewOrder == <<"left", "right">>

Views == {ViewOrder[i] : i \in 1..Len(ViewOrder)}

\* The place of a view in window.views()
ViewIndex(view) == CHOOSE i \in 1..Len(ViewOrder) : ViewOrder[i] = view

\* ALLOWED_MARKS of VieUserStack and of VieVisualStack, as indices: the
\* character ALLOWED_MARKS[i - 1] is the index i
ALLOWED_MARKS == [i \in 1..StackSlots |-> i]

\* get_mark(character) when no view holds the mark: None
NoMark == [name |-> 0, view |-> "", regions |-> <<>>]

\* VieBookmarker.get_mark: the mark of the first view that has regions under
\* the character
get_mark(bm, character) ==
    LET holders == {v \in Views : Len(bm[v][character]) >= 1}
    IN  IF holders = {} THEN NoMark
        ELSE LET view == CHOOSE v \in holders : \A w \in holders : ViewIndex(v) <= ViewIndex(w)
             IN  [name |-> character, view |-> view, regions |-> bm[view][character]]

\* VieBookmarker.delete_mark(mark=mark)
delete_mark(bm, mark) ==
    IF mark = NoMark THEN bm
    ELSE [bm EXCEPT ![mark.view][mark.name] = <<>>]

\* Faulty variant: the mark is added without deleting the one that exists
add_mark_kept(bm, character, view, regions) ==
    [bm EXCEPT ![view][character] = regions]

\* VieBookmarker.add_mark: delete_mark(character=character), then
\* view.add_regions
add_mark(bm, character, view, regions) ==
    [delete_mark(bm, get_mark(bm, character)) EXCEPT ![view][character] = regions]

\* pairwise(iterable) without a tail: (s0, s1), (s1, s2), ...
pairwise(s) == [i \in 1..(Len(s) - 1) |-> <<s[i], s[i + 1]>>]

\* def pairwise(iterable, tail=PairwiseTailSentinel): the keyword arguments
\* a call may pass; any other keyword is a TypeError
PairwiseAccepts(keyword) == keyword \in {"iterable", "tail"}

\* The for loop of _shift_stack from its i-th pair on
RECURSIVE ShiftLoop(_, _, _, _)
ShiftLoop(bm, stack, i, inv) ==
    IF i > Len(stack) THEN bm
    ELSE LET cur_char == IF inv THEN stack[i][2] ELSE stack[i][1]
             next_char == IF inv THEN stack[i][1] ELSE stack[i][2]
             mark == get_mark(bm, cur_char)
         IN  IF mark = NoMark
             THEN ShiftLoop(bm, stack, i + 1, inv)
             ELSE ShiftLoop(add_mark(bm, next_char, mark.view, mark.regions), stack, i + 1, inv)

\* Faulty variant: the pairs are walked front to back in both directions
shift_stack_forward(bm, inv) ==
    ShiftLoop(bm, pairwise(ALLOWED_MARKS), 1, inv)

\* VieStack._shift_stack
shift_stack(bm, inv) ==
    ShiftLoop(bm, IF inv THEN pairwise(ALLOWED_MARKS) ELSE Reverse(pairwise(ALLOWED_MARKS)), 1, inv)

\* The slot push, peek and update work on
TopChar(inv) == IF inv THEN ALLOWED_MARKS[Len(ALLOWED_MARKS)] ELSE ALLOWED_MARKS[1]

\* VieStack.push
push(bm, view, regions, inv) == add_mark(shift_stack(bm, inv), TopChar(inv), view, regions)

\* VieStack.peek
peek(bm, inv) == get_mark(bm, TopChar(inv))

\* VieStack.pop, from its start to its return or to the error that ends it.
\* The call pairwise(reversed(self.ALLOWED_MARKS), include_tail=True) is
\* made after the shift; with a keyword pairwise does not take it raises
\* TypeError, and the loop that deletes the duplicate is not entered.
pop(bm) ==
    LET result == peek(bm, FALSE)
    IN  IF result = NoMark
        THEN [bookmarks |-> bm, result |-> NoMark, raised |-> FALSE]
        ELSE IF ~PairwiseAccepts("include_tail")
        THEN [bookmarks |-> shift_stack(bm, TRUE), result |-> NoMark, raised |-> TRUE]
        ELSE LET shifted == shift_stack(bm, TRUE)
                 held == {c \in 1..Len(ALLOWED_MARKS) : get_mark(shifted, ALLOWED_MARKS[c]) # NoMark}
                 dup == CHOOSE c \in held : \A d \in held : d <= c
             IN  [bookmarks |-> IF held = {} THEN shifted
                                ELSE delete_mark(shifted, get_mark(shifted, ALLOWED_MARKS[dup])),
                  result |-> [result EXCEPT !.name = 0], raised |-> FALSE]

\* VieStack.update
stack_update(bm, view, regions, inv) == add_mark(bm, TopChar(inv), view, regions)

\* The for loop of delete_all_marks from the i-th character of iter_marks on;
\* iter_marks is a generator, so each get_mark runs after the deletes before it
RECURSIVE DeleteAll(_, _)
DeleteAll(bm, i) ==
    IF i > Len(ALLOWED_MARKS) THEN bm
    ELSE DeleteAll(delete_mark(bm, get_mark(bm, ALLOWED_MARKS[i])), i + 1)

\* VieBookmarker.delete_all_marks
delete_all_marks(bm) == DeleteAll(bm, 1)

\* ------------------------------------------------- VisualModeListener
\* sublime_is_multiselect, of view.sel()
sublime_is_multiselect(selections) == Len(selections) > 1

\* sublime_is_visual, of view.sel()
sublime_is_visual(selections) ==
    \E i \in 1..Len(selections) : Size(selections[i]) > 0

\* The view of a quick panel: view.window() is None
PanelView == "panel"

\* Faulty variant: an event that is not saveable leaves updating as it is
on_selection_modified_sticky(bm, upd, view, selection) ==
    LET saveable == sublime_is_visual(selection) \/ sublime_is_multiselect(selection)
    IN  IF ~saveable \/ view = PanelView
        THEN [bookmarks |-> bm, updating |-> upd, op |-> "none"]
        ELSE IF upd
        THEN [bookmarks |-> stack_update(bm, view, selection, FALSE), updating |-> upd, op |-> "update"]
        ELSE [bookmarks |-> push(bm, view, selection, FALSE), updating |-> TRUE, op |-> "push"]

\* VisualModeListener.on_selection_modified: the marks of the visual stack
\* and self.updating when the handler returns, and the stack call it made
on_selection_modified(bm, upd, view, selection) ==
    LET saveable == sublime_is_visual(selection) \/ sublime_is_multiselect(selection)
    IN  IF ~saveable
        THEN [bookmarks |-> bm, updating |-> FALSE, op |-> "none"]
        ELSE IF view = PanelView
        THEN [bookmarks |-> bm, updating |-> upd, op |-> "none"]
        ELSE IF upd
        THEN [bookmarks |-> stack_update(bm, view, selection, FALSE), updating |-> upd, op |-> "update"]
        ELSE [bookmarks |-> push(bm, view, selection, FALSE), updating |-> TRUE, op |-> "push"]

\* --------------------------------------------------- QuickPanelFinder
\* self.listener = None
NoListener == 0

\* QuickPanelFinder.listen: the listener when the call ends, and whether it
\* ended in RuntimeError
listen(listener, callback) ==
    IF listener # NoListener
    THEN [listener |-> listener, raised |-> TRUE]
    ELSE [listener |-> callback, raised |-> FALSE]

\* Faulty variant: the listener is cleared after the callback returns, not
\* in a finally clause
on_open_leaky(listener, callback_raises) ==
    IF listener = NoListener
    THEN [listener |-> listener, called |-> NoListener, raised |-> FALSE]
    ELSE [listener |-> IF callback_raises THEN listener ELSE NoListener,
          called |-> listener, raised |-> callback_raises]

\* QuickPanelFinder.on_open: the listener when the call ends, the callback
\* it called, and whether it ended in the callback's exception
on_open(listener, callback_raises) ==
    IF listener = NoListener
    THEN [listener |-> listener, called |-> NoListener, raised |-> FALSE]
    ELSE [listener |-> NoListener, called |-> listener, raised |-> callback_raises]

\* ------------------------------------------------------------------ state
VARIABLES
    impl,               \* "helpers": cursor_to_matches, "search": Search._next
    in_cursors,         \* the cursors passed in (view.sel()), ascending
    in_matches,         \* the matches passed in, ascending
    viewport,           \* the visible region, or None
    inverted,
    find_visible_only,
    gen,                \* the generator's frame
    view_sel,           \* view.sel() of the searched view, ascending
    stored,             \* view.get_regions(group_name): the highlighted matches
    visible,            \* view.visible_region()
    self_inverted,      \* Search.inverted
    last,               \* the last Search.next call that ended
    trail,              \* the real backward jumps made in a row from one caret
    trail_fwd,          \* the real forward jumps made in a row from one caret
    bookmarks,          \* view -> index into ALLOWED_MARKS -> regions of "bookmark_<char>"
    stack_hist,         \* the values pushed since the stack was created
    stack_last,         \* the last stack command that ended
    temp_group,         \* view.get_regions(HIGHLIGHT_GROUP_TEMP)
    panel,              \* the HighlightPanelCommand of the view and its input panel
    cur,                \* the view the commands run in (view_sel, stored, visible are its)
    registry,           \* ViewSearch._ALL, by view, and the objects constructed
    reg_hist,           \* per view: the first object made, the latest direction named
    cmd_last,           \* the last highlight command that ended
    mark_last,          \* the last call of the bookmarks API that ended
    updating,           \* VisualModeListener.updating, False until it is set
    event_last,         \* the last selection-modified event handled, and how many were
    finder,             \* QuickPanelFinder._instances by window: the instance's listener
    regs,               \* the callbacks handed to listen, in order, and their calls
    finder_last         \* the last QuickPanelFinder call that ended

navVars == <<impl, in_cursors, in_matches, viewport, inverted, find_visible_only, gen>>

searchVars == <<view_sel, stored, visible, self_inverted, last, trail, trail_fwd>>

stackVars == <<bookmarks, stack_hist, stack_last>>

panelVars == <<temp_group, panel>>

viewVars == <<cur, registry, reg_hist, cmd_last>>

markVars == <<mark_last>>

visualVars == <<updating, event_last>>

finderVars == <<finder, regs, finder_last>>

apiVars == <<markVars, visualVars, finderVars>>

extVars == <<panelVars, viewVars, apiVars>>

vars == <<navVars, searchVars, stackVars, extVars>>

inputs == <<impl, in_cursors, in_matches, viewport, inverted, find_visible_only>>

\* ------------------------------------------- the subsystems when not in use
\* No Search.next call has ended yet
NoLast == [outcome |-> "none", inverted |-> FALSE, update_cursors |-> FALSE,
           sel_before |-> <<>>, visible_before |-> None, out |-> <<>>, shown |-> None]

NoTrail == [n |-> 0, path |-> <<>>]

\* No generator exists
NoGen == [NewFrame EXCEPT !.pc = "returned"]

\* No bookmark_<char> regions in any view
EmptyBookmarks == [v \in Views |-> [c \in 1..StackSlots |-> <<>>]]

NoStackOp == [op |-> "none", before |-> EmptyBookmarks, result |-> NoMark, raised |-> FALSE]

NavOff ==
    /\ impl = "search"
    /\ in_cursors = <<>> /\ in_matches = <<>> /\ viewport = None
    /\ inverted = FALSE /\ find_visible_only = FALSE
    /\ gen = NoGen

SearchOff ==
    /\ view_sel = <<>> /\ stored = <<>> /\ visible = None /\ self_inverted = FALSE
    /\ last = NoLast /\ trail = NoTrail /\ trail_fwd = NoTrail

StackOff ==
    /\ bookmarks = EmptyBookmarks
    /\ stack_hist = [pushed |-> <<>>, clean |-> TRUE]
    /\ stack_last = NoStackOp

\* No input panel was opened yet
NoPanel ==
    [phase |-> "closed", search |-> FALSE, backwards |-> FALSE,
     viewport |-> None, visible_region |-> None,
     sel_at_run |-> <<>>, stored_at_run |-> <<>>,
     changed |-> FALSE, found_none |-> FALSE, scrolled |-> FALSE]

PanelOff == temp_group = <<>> /\ panel = NoPanel

\* No ViewSearch was made yet, no command has run
NoRegistry == [all |-> [v \in Views |-> NoSearch], made |-> 0]

NoRegHist == [first |-> [v \in Views |-> 0], named |-> [v \in Views |-> "none"]]

NoCmd == [cmd |-> "none", backwards |-> FALSE, inverted |-> FALSE]

ViewOff ==
    /\ cur = ViewOrder[1]
    /\ registry = NoRegistry /\ reg_hist = NoRegHist /\ cmd_last = NoCmd

\* No call of the bookmarks API has ended yet
NoMarkOp == [op |-> "none", moved |-> FALSE, n |-> 0]

MarkOff == mark_last = NoMarkOp

\* No selection-modified event was handled yet
NoEvent == [n |-> 0, view |-> "", sel |-> <<>>, saveable |-> FALSE, op |-> "none",
            saveables |-> 0, pushes |-> 0, rest_kept |-> TRUE]

VisualOff == updating = FALSE /\ event_last = NoEvent

\* The windows of the application
WindowIds == {"w1", "w2"}

\* QuickPanelFinder.__init__ in every window: listener = None (0)
NoFinder == [w \in WindowIds |-> 0]

NoFinderCall == [n |-> 0, op |-> "none", window |-> "", view |-> "", raised |-> FALSE,
                 called |-> 0, pending |-> 0, regs_kept |-> TRUE]

FinderOff == finder = NoFinder /\ regs = <<>> /\ finder_last = NoFinderCall

ApiOff == MarkOff /\ VisualOff /\ FinderOff

ExtOff == PanelOff /\ ViewOff /\ ApiOff

\* ----------------------------------------------------------------- inputs
RegionsIn(lo, hi) == {r \in (lo..hi) \X (lo..hi) : r[1] <= r[2]}

SeqsUpTo(S, n) == UNION {[1..k -> S] : k \in 0..n}

\* view.sel(): sorted; regions neither overlap nor, when one is empty, touch
IsSelection(s) ==
    \A i \in 1..(Len(s) - 1) :
        \/ End(s[i]) < Begin(s[i + 1])
        \/ (End(s[i]) = Begin(s[i + 1]) /\ Size(s[i]) > 0 /\ Size(s[i + 1]) > 0)

\* view.find_all(): non-empty (empty ones are filtered out), sorted, disjoint
IsMatchList(s) ==
    /\ \A i \in 1..Len(s) : Size(s[i]) > 0
    /\ \A i \in 1..(Len(s) - 1) : End(s[i]) <= Begin(s[i + 1])

Viewports == {None} \cup {r \in RegionsIn(0, BufLen) : Size(r) > 0}

Impls == {"helpers", "search"}

InitSmall ==
    /\ impl \in Impls
    /\ in_cursors \in {s \in SeqsUpTo(RegionsIn(0, BufLen), MaxCursors) : IsSelection(s)}
    /\ in_matches \in {s \in SeqsUpTo(RegionsIn(0, BufLen), MaxMatches) : IsMatchList(s)}
    /\ viewport \in Viewports
    /\ inverted \in BOOLEAN
    /\ find_visible_only \in BOOLEAN
    /\ gen = NewFrame

\* Long inputs: k one-character matches and one cursor behind them all
BigSizes == (LoopLimitDefault - 1 - BigMargin)..(LoopLimitDefault - 1 + BigMargin)

InitBig ==
    /\ impl \in Impls
    /\ \E k \in BigSizes :
          /\ in_matches = [i \in 1..k |-> <<i - 1, i>>]
          /\ in_cursors = <<(<<k, k>>)>>
    /\ viewport = None
    /\ inverted = FALSE
    /\ find_visible_only \in BOOLEAN
    /\ gen = NewFrame

Init == (InitSmall \/ InitBig) /\ SearchOff /\ StackOff /\ ExtOff

\* Inputs that bypass the preconditions: any list of carets, any list of
\* matches of at most one character, in any order, duplicates included
Carets(hi) == {<<p, p>> : p \in 0..hi}

ShortRegions(hi) == {r \in RegionsIn(0, hi) : Size(r) <= 1}

InitAnySmall ==
    /\ impl \in Impls
    /\ in_cursors \in SeqsUpTo(Carets(AnyPos), AnyLen)
    /\ in_matches \in SeqsUpTo(ShortRegions(AnyPos), AnyLen)
    /\ viewport = None
    /\ inverted \in BOOLEAN
    /\ find_visible_only \in BOOLEAN
    /\ gen = NewFrame

\* Long unsorted inputs: the matches of InitBig in descending order
InitAnyBig ==
    /\ impl \in Impls
    /\ \E k \in BigSizes :
          /\ in_matches = [i \in 1..k |-> <<k - i, k - i + 1>>]
          /\ in_cursors = <<(<<k, k>>)>>
    /\ viewport = None
    /\ inverted = FALSE
    /\ find_visible_only \in BOOLEAN
    /\ gen = NewFrame

InitAny == (InitAnySmall \/ InitAnyBig) /\ SearchOff /\ StackOff /\ ExtOff

\* Inputs on a longer buffer, where two cursors can each have a match of
\* their own ahead: any selection, any match list, preview off
InitWide ==
    /\ impl \in Impls
    /\ in_cursors \in {s \in SeqsUpTo(RegionsIn(0, WideBuf), MaxCursors) : IsSelection(s)}
    /\ in_matches \in {s \in SeqsUpTo(RegionsIn(0, WideBuf), MaxMatches) : IsMatchList(s)}
    /\ viewport \in {None} \cup {r \in RegionsIn(0, WideBuf) : Size(r) = ViewHeight}
    /\ inverted \in BOOLEAN
    /\ find_visible_only = FALSE
    /\ gen = NewFrame
    /\ SearchOff /\ StackOff /\ ExtOff

\* ---------------------------------------------------------------- actions
\* next(generator), first time
First ==
    /\ gen.pc = "created"
    /\ gen' = GenFirst(impl, in_cursors, in_matches, viewport, inverted, find_visible_only)
    /\ UNCHANGED <<inputs, searchVars, stackVars, extVars>>

\* next(generator), later times
Resume ==
    /\ gen.pc = "suspended"
    /\ gen' = GenNext(impl, gen, inverted)
    /\ UNCHANGED <<inputs, searchVars, stackVars, extVars>>

Next == First \/ Resume

Spec == Init /\ [][Next]_vars

\* The same generator on inputs that need not meet the preconditions
SpecAny == InitAny /\ [][Next]_vars

SpecWide == InitWide /\ [][Next]_vars

\* ------------------------------------------------- Search.next, as actions
\* The views Search.next is called on: any selection of carets and
\* one-character regions, any stored matches and any viewport of ViewHeight
\* characters in a buffer of JumpBuf characters; Search.__init__ sets
\* inverted=False
InitJump ==
    /\ NavOff /\ StackOff /\ ExtOff
    /\ view_sel \in {s \in SeqsUpTo(ShortRegions(JumpBuf), MaxCursors) : IsSelection(s)}
    /\ stored \in {s \in SeqsUpTo(RegionsIn(0, JumpBuf), MaxMatches) : IsMatchList(s)}
    /\ visible \in {r \in RegionsIn(0, JumpBuf) : Size(r) = ViewHeight}
    /\ self_inverted = FALSE
    /\ last = NoLast /\ trail = NoTrail /\ trail_fwd = NoTrail

\* The direction each entry point hands to Search.next
EntryInverted(entry) ==
    CASE entry = "next" -> FALSE
      [] entry = "forwards" -> self_inverted
      [] entry = "backwards" -> ~self_inverted
      [] entry = "prev" -> TRUE

Entries == {"next", "forwards", "backwards", "prev"}

\* The run of real backward jumps from one caret, one jump longer; it is
\* followed for as many jumps as there are matches
Trailed(t, before, after, real_backward) ==
    IF ~(real_backward /\ Len(before) = 1 /\ Size(before[1]) = 0) THEN NoTrail
    ELSE IF t.n >= Len(stored) THEN t
    ELSE [n |-> t.n + 1, path |-> Append(t.path, Begin(after[1]))]

\* Search.next, from the call to its return or to the error that leaves it.
\* Without stored matches it returns at once. Otherwise the for loop runs
\* the generator to its end (the generator reads view.sel() when it is first
\* resumed); then the cursors are swapped and the visible match is shown. An
\* error of the generator leaves Search.next from inside the loop. The
\* search belongs to a view (visible is its visible region).
SearchNext ==
    /\ visible # None
    /\ \E inv \in {EntryInverted(entry) : entry \in Entries},
          vp \in {None} \cup Windows(visible, JumpBuf), update \in BOOLEAN :
          IF Len(stored) = 0
          THEN /\ last' = [outcome |-> "noop", inverted |-> inv,
                           update_cursors |-> update, sel_before |-> view_sel,
                           visible_before |-> visible, out |-> <<>>, shown |-> None]
               /\ trail' = NoTrail /\ trail_fwd' = NoTrail
               /\ UNCHANGED <<view_sel, visible>>
          ELSE \E new_cursor_gen \in {RunToEnd("search", view_sel, stored,
                                               IF vp = None THEN visible ELSE vp,
                                               inv, ~update)} :
                  LET raised == new_cursor_gen.pc # "returned"
                      new_visible == IF raised THEN None ELSE NewVisible(new_cursor_gen.out)
                      new_sel == Applied(view_sel, update, NewCursors(new_cursor_gen.out),
                                         End(stored[Len(stored)]), raised)
                  IN  /\ view_sel' = new_sel
                      /\ visible' \in IF new_visible = None THEN {visible}
                                      ELSE ShowResults(visible, new_visible, JumpBuf)
                      /\ last' = [outcome |-> new_cursor_gen.pc, inverted |-> inv,
                                  update_cursors |-> update, sel_before |-> view_sel,
                                  visible_before |-> visible, out |-> new_cursor_gen.out,
                                  shown |-> new_visible]
                      /\ trail' = Trailed(trail, view_sel, new_sel, ~raised /\ update /\ inv)
                      /\ trail_fwd' = Trailed(trail_fwd, view_sel, new_sel, ~raised /\ update /\ ~inv)
    /\ UNCHANGED <<navVars, stored, self_inverted, stackVars, extVars>>

NextJump == SearchNext

SpecJump == InitJump /\ [][NextJump]_vars

\* The generator on its own and Search.next, side by side
SpecBoth == (Init \/ InitJump) /\ [][Next \/ NextJump]_vars

\* ------------------------------------- HighlightPanelCommand, as actions
\* What Search.find can return: view.find_all's regions without the empty ones
FindResults ==
    UNION {{s \in [1..k -> RegionsIn(0, JumpBuf)] : IsMatchList(s)} : k \in 0..MaxMatches}

\* A view with a selection and highlighted matches, its search panel closed
InitPanel ==
    /\ NavOff /\ StackOff /\ ExtOff
    /\ view_sel \in {s \in SeqsUpTo(Carets(JumpBuf), MaxCursors) : IsSelection(s)}
    /\ stored \in {<<>>, << <<0, 1>> >>}
    /\ visible \in {r \in RegionsIn(0, JumpBuf) : Size(r) = ViewHeight}
    /\ self_inverted = FALSE
    /\ last = NoLast /\ trail = NoTrail /\ trail_fwd = NoTrail

\* HighlightPanelCommand.run: the state is saved, the temporary search is
\* made when autoupdate is set, the panel opens
PanelRun ==
    /\ visible # None
    /\ panel.phase # "open"
    /\ \E backwards \in BOOLEAN, autoupdate \in BOOLEAN :
          panel' = [phase |-> "open", search |-> autoupdate, backwards |-> backwards,
                    viewport |-> visible, visible_region |-> visible,
                    sel_at_run |-> view_sel, stored_at_run |-> stored,
                    changed |-> FALSE, found_none |-> FALSE, scrolled |-> FALSE]
    /\ UNCHANGED <<navVars, searchVars, stackVars, temp_group, viewVars, apiVars>>

\* InputPanelMixin.on_change -> HighlightPanelCommand._on_change
PanelChange ==
    /\ panel.phase = "open"
    /\ IF ~panel.search
       THEN /\ panel' = [panel EXCEPT !.changed = TRUE]
            /\ UNCHANGED <<temp_group, visible>>
       ELSE \E matches \in FindResults :
               /\ temp_group' = add_matches(reset(temp_group), matches)
               /\ \E shown \in Previewed(view_sel, add_matches(reset(temp_group), matches),
                                          on_change_viewport(panel, visible),
                                          panel.visible_region, panel.backwards) :
                     /\ visible' = shown
                     /\ panel' = [panel EXCEPT !.changed = TRUE, !.found_none = (matches = <<>>),
                                               !.scrolled = @ \/ shown # panel.viewport]
    /\ UNCHANGED <<navVars, view_sel, stored, self_inverted, last, trail, trail_fwd, stackVars, viewVars, apiVars>>

\* InputPanelMixin.on_cancel -> HighlightPanelCommand._on_cancel
PanelCancel ==
    /\ panel.phase = "open"
    /\ temp_group' = on_cancel_group(panel, temp_group)
    /\ visible' = on_cancel_viewport(panel, visible)
    /\ panel' = [panel EXCEPT !.phase = "cancelled"]
    /\ UNCHANGED <<navVars, view_sel, stored, self_inverted, last, trail, trail_fwd, stackVars, viewVars, apiVars>>

NextPanel == PanelRun \/ PanelChange \/ PanelCancel

SpecPanel == InitPanel /\ [][NextPanel]_vars

\* ------------------------------------- the highlight commands, as actions
\* The selections and visible regions a view can have: no or one cursor,
\* the whole buffer visible
ViewSelections == UNION {[1..k -> ShortRegions(HlBuf)] : k \in 0..1}

ViewWindows == {<<0, HlBuf>>}

\* What Search.find can return in these views
Found == UNION {{s \in [1..k -> RegionsIn(0, HlBuf)] : IsMatchList(s)} : k \in 0..MaxMatches}

\* The first view of the window is active, nothing is highlighted anywhere
InitView ==
    /\ NavOff /\ StackOff /\ ExtOff
    /\ view_sel \in ViewSelections
    /\ stored = <<>>
    /\ visible \in ViewWindows
    /\ self_inverted = FALSE
    /\ last = NoLast /\ trail = NoTrail /\ trail_fwd = NoTrail

\* The inverted argument of a ViewSearch call that passes backwards
Named(backwards) == IF backwards THEN "backward" ELSE "forward"

\* What every command records: the object ViewSearch returned, its first
\* object and the latest direction a call named for the view
Recorded(hist, reg, direction) ==
    [first |-> [hist.first EXCEPT ![cur] = IF @ = 0 THEN reg.all[cur].id ELSE @],
     named |-> [hist.named EXCEPT ![cur] = IF direction = "none" THEN @ ELSE direction]]

\* HighlightSelectionCommand.run and HighlightWordCommand.run
Highlight ==
    /\ visible # None
    /\ \E append \in BOOLEAN, backwards \in BOOLEAN :
          \E reg \in {ViewSearch(registry, cur, Named(backwards))} :
             /\ registry' = reg
             /\ reg_hist' = Recorded(reg_hist, reg, Named(backwards))
             /\ cmd_last' = NoCmd
             /\ \E group \in {IF append THEN stored ELSE reset(stored)} :
                   IF Len(view_sel) = 0
                   THEN stored' = group
                   ELSE \E matches \in Found :
                           /\ Len(matches) + Len(group) <= MaxMatches
                           /\ stored' = add_matches(group, matches)
    /\ UNCHANGED <<navVars, view_sel, visible, self_inverted, last, trail, trail_fwd,
                   stackVars, panelVars, cur, apiVars>>

\* ClearAllHighlightCommand.run
ClearAll ==
    /\ visible # None
    /\ \E reg \in {ViewSearch(registry, cur, "none")} :
          /\ registry' = reg
          /\ reg_hist' = Recorded(reg_hist, reg, "none")
          /\ cmd_last' = NoCmd
    /\ stored' = reset(stored)
    /\ UNCHANGED <<navVars, view_sel, visible, self_inverted, last, trail, trail_fwd,
                   stackVars, panelVars, cur, apiVars>>

\* ClearHighlightCommand.run
Clear ==
    /\ visible # None
    /\ \E reg \in {ViewSearch(registry, cur, "none")} :
          /\ registry' = reg
          /\ reg_hist' = Recorded(reg_hist, reg, "none")
          /\ cmd_last' = NoCmd
    /\ stored' = ClearUnder(stored, view_sel, 1)
    /\ UNCHANGED <<navVars, view_sel, visible, self_inverted, last, trail, trail_fwd,
                   stackVars, panelVars, cur, apiVars>>

\* HighlightNextCommand.run
HighlightNext ==
    /\ visible # None
    /\ \E backwards \in BOOLEAN :
          \E reg \in {ViewSearch(registry, cur, "none")} :
             \E inv \in {IF backwards THEN ~reg.all[cur].inverted ELSE reg.all[cur].inverted} :
                /\ registry' = reg
                /\ reg_hist' = Recorded(reg_hist, reg, "none")
                /\ cmd_last' = [cmd |-> "next", backwards |-> backwards, inverted |-> inv]
                /\ \E jumped \in Jumped(view_sel, stored, visible, inv) :
                      /\ view_sel' = jumped.sel
                      /\ visible' = jumped.visible
    /\ UNCHANGED <<navVars, stored, self_inverted, last, trail, trail_fwd,
                   stackVars, panelVars, cur, apiVars>>

\* Another view of the window gets the focus. What a view holds is not
\* followed while it is in the background: it comes back with one caret and
\* with no or one highlighted match (none as long as it has no ViewSearch)
FocusView ==
    /\ visible # None
    /\ \E view \in Views \ {cur} :
          /\ cur' = view
          /\ view_sel' \in {<<caret>> : caret \in Carets(HlBuf)}
          /\ stored' \in IF registry.all[view] = NoSearch THEN {<<>>}
                          ELSE {<<>>, << <<0, 1>> >>}
          /\ visible' \in ViewWindows
    /\ cmd_last' = NoCmd
    /\ UNCHANGED <<navVars, self_inverted, last, trail, trail_fwd, stackVars, panelVars,
                   registry, reg_hist, apiVars>>

NextView == Highlight \/ ClearAll \/ Clear \/ HighlightNext \/ FocusView

SpecView == InitView /\ [][NextView]_vars

\* --------------------------------------------------- VieStack, as actions
InitStack == NavOff /\ SearchOff /\ StackOff /\ ExtOff

\* The selections a view hands to push
PushRegions == {<< <<0, 0>> >>}

\* ViePushBookmark.run: push the selection of the view the command runs in
Push ==
    /\ Len(stack_hist.pushed) < StackSlots + ExtraPushes
    /\ \E view \in Views, regions \in PushRegions :
          /\ bookmarks' = push(bookmarks, view, regions, FALSE)
          /\ stack_hist' = IF stack_hist.clean
                           THEN [stack_hist EXCEPT !.pushed = Append(@, [view |-> view, regions |-> regions])]
                           ELSE stack_hist
          /\ stack_last' = [op |-> "push", before |-> bookmarks, result |-> NoMark, raised |-> FALSE]
    /\ UNCHANGED <<navVars, searchVars, extVars>>

\* ViePopBookmark.run: pop, then go_to_mark when a mark came back
Pop ==
    /\ LET r == pop(bookmarks)
       IN  /\ bookmarks' = r.bookmarks
           /\ stack_last' = [op |-> "pop", before |-> bookmarks, result |-> r.result, raised |-> r.raised]
           /\ stack_hist' = IF r.bookmarks = bookmarks THEN stack_hist
                            ELSE [pushed |-> <<>>, clean |-> FALSE]
    /\ UNCHANGED <<navVars, searchVars, extVars>>

NextStack == Push \/ Pop

\* ---------------------------------------------- the bookmarks API, as actions
InitMarks == NavOff /\ SearchOff /\ StackOff /\ ExtOff

\* A call that is not a push of ViePushBookmark ends the record of the pushes
Unrecorded == [pushed |-> <<>>, clean |-> FALSE]

\* The character's mark is held by a view other than the one named
HeldElsewhere(bm, character, view) ==
    \E v \in Views \ {view} : Len(bm[v][character]) >= 1

\* VieCreateBookmark.run: add_mark(character, view, regions=selection)
AddMark ==
    /\ mark_last.n < MaxOps
    /\ \E character \in 1..Len(ALLOWED_MARKS), view \in Views, regions \in PushRegions :
          /\ bookmarks' = add_mark(bookmarks, character, view, regions)
          /\ mark_last' = [op |-> "add_mark", moved |-> HeldElsewhere(bookmarks, character, view),
                          n |-> mark_last.n + 1]
    /\ stack_hist' = Unrecorded
    /\ UNCHANGED <<navVars, searchVars, stack_last, panelVars, viewVars, visualVars, finderVars>>

\* VieBookmarker.delete_mark(character=character)
DeleteMark ==
    /\ mark_last.n < MaxOps
    /\ \E character \in 1..Len(ALLOWED_MARKS) :
          bookmarks' = delete_mark(bookmarks, get_mark(bookmarks, character))
    /\ mark_last' = [op |-> "delete_mark", moved |-> FALSE, n |-> mark_last.n + 1]
    /\ stack_hist' = Unrecorded
    /\ UNCHANGED <<navVars, searchVars, stack_last, panelVars, viewVars, visualVars, finderVars>>

\* VieStack.push and VieStack.shift
PushMark ==
    /\ mark_last.n < MaxOps
    /\ \E view \in Views, regions \in PushRegions, inv \in BOOLEAN :
          /\ bookmarks' = push(bookmarks, view, regions, inv)
          /\ mark_last' = [op |-> "push", moved |-> HeldElsewhere(bookmarks, TopChar(inv), view),
                          n |-> mark_last.n + 1]
    /\ stack_hist' = Unrecorded
    /\ UNCHANGED <<navVars, searchVars, stack_last, panelVars, viewVars, visualVars, finderVars>>

\* VieStack.update
UpdateMark ==
    /\ mark_last.n < MaxOps
    /\ \E view \in Views, regions \in PushRegions, inv \in BOOLEAN :
          /\ bookmarks' = stack_update(bookmarks, view, regions, inv)
          /\ mark_last' = [op |-> "update", moved |-> HeldElsewhere(bookmarks, TopChar(inv), view),
                          n |-> mark_last.n + 1]
    /\ stack_hist' = Unrecorded
    /\ UNCHANGED <<navVars, searchVars, stack_last, panelVars, viewVars, visualVars, finderVars>>

\* VieClearBookmarks.run: delete_all_marks
DeleteAllMarks ==
    /\ mark_last.n < MaxOps
    /\ bookmarks' = delete_all_marks(bookmarks)
    /\ mark_last' = [op |-> "delete_all_marks", moved |-> FALSE, n |-> mark_last.n + 1]
    /\ stack_hist' = Unrecorded
    /\ UNCHANGED <<navVars, searchVars, stack_last, panelVars, viewVars, visualVars, finderVars>>

NextMarks == AddMark \/ DeleteMark \/ PushMark \/ UpdateMark \/ DeleteAllMarks

SpecMarks == InitMarks /\ [][NextMarks]_vars

\* ------------------------------------------- VisualModeListener, as actions
InitVisual == NavOff /\ SearchOff /\ StackOff /\ ExtOff

\* view.sel() at an event: a caret, a visual selection, two carets, a
\* visual selection further on
EventSelections ==
    {<< <<0, 0>> >>, << <<0, 1>> >>, << <<0, 0>>, <<1, 1>> >>, << <<1, 2>> >>}

\* The slots of the stack under its top hold what they held
RestKept(bm, after) ==
    \A v \in Views, c \in 1..Len(ALLOWED_MARKS) :
        c # TopChar(FALSE) => after[v][c] = bm[v][c]

\* A selection-modified event of a view of the window or of a quick panel
SelectionModified ==
    /\ event_last.n < MaxEvents
    /\ \E view \in Views \cup {PanelView}, selection \in EventSelections :
          LET r == on_selection_modified(bookmarks, updating, view, selection)
              saveable == sublime_is_visual(selection) \/ sublime_is_multiselect(selection)
              counted == saveable /\ view # PanelView
          IN  /\ bookmarks' = r.bookmarks
              /\ updating' = r.updating
              /\ event_last' =
                    [n |-> event_last.n + 1, view |-> view, sel |-> selection,
                     saveable |-> saveable, op |-> r.op,
                     saveables |-> IF ~saveable THEN 0
                                   ELSE event_last.saveables + (IF counted THEN 1 ELSE 0),
                     pushes |-> IF ~saveable THEN 0
                                ELSE event_last.pushes + (IF r.op = "push" THEN 1 ELSE 0),
                     rest_kept |-> RestKept(bookmarks, r.bookmarks)]
    /\ stack_hist' = Unrecorded
    /\ UNCHANGED <<navVars, searchVars, stack_last, panelVars, viewVars, markVars, finderVars>>

NextVisual == SelectionModified

SpecVisual == InitVisual /\ [][NextVisual]_vars

\* --------------------------------------------- QuickPanelFinder, as actions
InitFinder == NavOff /\ SearchOff /\ StackOff /\ ExtOff

\* Whether the callback of the listener raises when it is called
Raises(listener) == listener # NoListener /\ regs[listener].raises

\* VieMarkPanel.open_marks_panel: QuickPanelFinder(view=self.view).listen(cb)
\* with a callback that returns or raises when it is called
Listen ==
    /\ finder_last.n < MaxCalls
    /\ \E w \in WindowIds, raises \in BOOLEAN :
          LET callback == Len(regs) + 1
              r == listen(finder[w], callback)
          IN  /\ finder' = [finder EXCEPT ![w] = r.listener]
              /\ regs' = IF r.raised THEN regs
                         ELSE Append(regs, [window |-> w, calls |-> 0, got |-> "", raises |-> raises])
              /\ finder_last' = [n |-> finder_last.n + 1, op |-> "listen", window |-> w, view |-> "",
                                 raised |-> r.raised, called |-> NoListener,
                                 pending |-> finder[w], regs_kept |-> r.raised]
    /\ UNCHANGED <<navVars, searchVars, stackVars, panelVars, viewVars, markVars, visualVars>>

\* QuickPanelListener.on_activated: QuickPanelFinder(view=view).on_open(view)
OnOpen ==
    /\ finder_last.n < MaxCalls
    /\ \E w \in WindowIds, view \in Views \cup {PanelView} :
          LET r == on_open(finder[w], Raises(finder[w]))
          IN  /\ finder' = [finder EXCEPT ![w] = r.listener]
              /\ regs' = IF r.called = NoListener THEN regs
                         ELSE [regs EXCEPT ![r.called].calls = @ + 1, ![r.called].got = view]
              /\ finder_last' = [n |-> finder_last.n + 1, op |-> "on_open", window |-> w, view |-> view,
                                 raised |-> r.raised, called |-> r.called,
                                 pending |-> finder[w], regs_kept |-> (r.called = NoListener)]
    /\ UNCHANGED <<navVars, searchVars, stackVars, panelVars, viewVars, markVars, visualVars>>

NextFinder == Listen \/ OnOpen

SpecFinder == InitFinder /\ [][NextFinder]_vars

SpecStack == InitStack /\ [][NextStack]_vars

\* ================================================================= claims
Returned == gen.pc = "returned"

Visibles(out) == {i \in 1..Len(out) : out[i].is_visible}

RECURSIVE SumLen(_)
SumLen(batches) == IF batches = <<>> THEN 0 ELSE Len(Head(batches)) + SumLen(Tail(batches))

RECURSIVE Flatten(_)
Flatten(batches) == IF batches = <<>> THEN <<>> ELSE Head(batches) \o Flatten(Tail(batches))

\* The cursors the merge loop works on
Working == IF find_visible_only THEN <<gen.visible_cursor>> ELSE Directed(in_cursors, inverted)

\* The call ended in the wraparound (Stage 2)
Wrapped == Len(in_cursors) > 0 /\ Len(gen.out) > 0 /\ gen.resume = "return"

\* m lies strictly ahead of c in the direction of the jump
Ahead(m, c, inv) == IF inv THEN End(m) < End(c) ELSE Begin(m) > Begin(c)

\* C1: a call run to completion on a non-empty match list has yielded
\* exactly one assignment with is_visible set, whatever the cursors, the
\* viewport, the direction and the preview flag.
C1_OneVisible ==
    (Returned /\ Len(in_matches) > 0) => Cardinality(Visibles(gen.out)) = 1

\* C1 witness: a completed real jump of two cursors whose second assignment
\* is the visible one
C1_Witness ==
    /\ Returned /\ ~find_visible_only
    /\ Len(in_cursors) = 2 /\ Len(gen.out) = 2
    /\ ~gen.out[1].is_visible /\ gen.out[2].is_visible

\* C2 (as claimed): every cursor popped into the batch of a non-wrap
\* assignment has its target strictly ahead of it (forward: target.begin >
\* cursor.begin; inverted: target.end < cursor.end).
C2_TargetAhead ==
    \A i \in 1..Len(gen.out) :
        \A j \in 1..Len(gen.replaced[i]) :
            Ahead(gen.out[i].region, gen.replaced[i][j], inverted)

\* C3: with the preview flag off and non-empty cursors and matches, the
\* batches of the yielded assignments, followed by the cursors left for the
\* wraparound, are the original cursors in walking order, each once; so the
\* batch sizes plus the wrapped cursors add up to the original count.
C3_AllAccounted ==
    (Returned /\ ~find_visible_only /\ Len(in_cursors) > 0 /\ Len(in_matches) > 0) =>
        /\ SumLen(gen.replaced) + (IF Wrapped THEN Len(gen.cursors) ELSE 0) = Len(in_cursors)
        /\ Flatten(gen.replaced) \o gen.cursors = Directed(in_cursors, inverted)

\* C3 witness: of two cursors one went to a match and the other wrapped
C3_Witness ==
    /\ Returned /\ ~find_visible_only /\ Wrapped
    /\ Len(in_cursors) = 2 /\ Len(gen.out) = 2
    /\ Len(gen.replaced[1]) = 1 /\ Len(gen.cursors) = 1

\* C4: the call ends in the wraparound exactly when it reaches a front
\* cursor with no match ahead of it. The wraparound is one assignment
\* {orig: None, region: first match of the direction-ordered original list,
\* is_visible: visible cursor among the cursors still left}, it is the last
\* assignment, and the next resumption returns without yielding.
C4_Wraparound ==
    (Len(in_cursors) > 0 /\ Len(in_matches) > 0 /\ gen.pc \in {"suspended", "returned"}) =>
        /\ Wrapped =>
              /\ Len(gen.cursors) > 0
              /\ \A k \in 1..Len(in_matches) : ~Ahead(in_matches[k], gen.cursors[1], inverted)
              /\ gen.out[Len(gen.out)] =
                    CursorMatch(None, Directed(in_matches, inverted)[1],
                                IsIn(gen.visible_cursor, gen.cursors))
              /\ \A i \in 1..(Len(gen.out) - 1) : Len(gen.replaced[i]) > 0
              /\ GenNext(impl, gen, inverted) = [gen EXCEPT !.pc = "returned"]
        /\ ~Wrapped =>
              /\ \A i \in 1..Len(gen.out) :
                    /\ Len(gen.replaced[i]) > 0
                    /\ Ahead(gen.out[i].region, gen.replaced[i][1], inverted)
              /\ Returned => gen.cursors = <<>>

\* C4 witness: inverted, two matches, the lower cursor wraps to the highest
\* match after the higher cursor went to the lower match
C4_Witness ==
    /\ Returned /\ Wrapped /\ inverted
    /\ Len(in_matches) = 2 /\ Len(gen.out) = 2
    /\ gen.out[1].region = in_matches[1]
    /\ gen.out[2] = CursorMatch(None, in_matches[2], FALSE)

\* The target of the assignment flagged visible
VisibleTarget(out) == out[CHOOSE i \in Visibles(out) : TRUE].region

\* C5 (as claimed): the single assignment of the preview run
\* (find_visible_only) targets the match of the visible assignment of the
\* real run on the same cursors, matches, viewport and direction.
C5_PreviewAgrees ==
    (Returned /\ ~find_visible_only /\ Len(in_cursors) > 0 /\ Len(in_matches) > 0) =>
        LET preview == RunToEnd(impl, in_cursors, in_matches, viewport, inverted, TRUE)
        IN  /\ preview.pc = "returned"
            /\ Len(preview.out) = 1
            /\ preview.out[1].region = VisibleTarget(gen.out)

\* Where C5 fails, the visible cursor was popped into a batch behind
\* another cursor while sitting exactly on the target (the case of C2)
C5_OnlyByC2 ==
    (Returned /\ ~find_visible_only /\ Len(in_cursors) > 0 /\ Len(in_matches) > 0
        /\ ~C5_PreviewAgrees) =>
        \E i \in 1..Len(gen.out) :
            /\ gen.out[i].is_visible
            /\ \E j \in 2..Len(gen.replaced[i]) :
                  /\ gen.replaced[i][j] = gen.visible_cursor
                  /\ ~Ahead(gen.out[i].region, gen.visible_cursor, inverted)

\* C6 (as claimed): cursor_to_matches on valid input that needs fewer than
\* 10,000 loop iterations, i.e. that completes under a guard of 10,000
\* counts, completes without the loop-limit error.
C6_BudgetTenThousand ==
    (impl = "helpers"
        /\ RunWithBudget(impl, in_cursors, in_matches, viewport, inverted,
                         find_visible_only, DocumentedLimit).pc = "returned")
    => gen.pc # "raised"

\* Mirror image of a region and of an ascending list in a buffer of length n
MirrorRegion(r, n) == IF r = None THEN None ELSE <<n - End(r), n - Begin(r)>>

MirrorList(s, n) == [i \in 1..Len(s) |-> MirrorRegion(s[Len(s) + 1 - i], n)]

InBuffer == \A i \in 1..Len(in_matches) : End(in_matches[i]) <= BufLen

\* C8 (as claimed): the forward run and the inverted run on the mirrored
\* cursors, matches and viewport yield the same number of assignments, the
\* k-th targets being mirror images of each other.
C8_MirrorSymmetry ==
    (Returned /\ ~inverted /\ ~find_visible_only /\ InBuffer) =>
        LET mirrored == RunToEnd(impl, MirrorList(in_cursors, BufLen),
                                 MirrorList(in_matches, BufLen),
                                 MirrorRegion(viewport, BufLen), TRUE, FALSE)
        IN  /\ mirrored.pc = "returned"
            /\ Len(mirrored.out) = Len(gen.out)
            /\ \A k \in 1..Len(gen.out) :
                  mirrored.out[k].region = MirrorRegion(gen.out[k].region, BufLen)

\* C8 holds wherever the target does not come from closest_visible
C8_OnlyByC9 ==
    (Returned /\ ~inverted /\ ~find_visible_only /\ InBuffer /\ Len(in_cursors) > 0)
    => C8_MirrorSymmetry

\* C9 (as claimed): when at least one cursor lies fully inside the viewport,
\* the cursor closest_visible returns lies fully inside the viewport,
\* forward and inverted.
C9_FullyVisible ==
    (gen.pc # "created" /\ Len(in_cursors) > 0 /\ Len(in_matches) > 0 /\ viewport # None
        /\ \E i \in 1..Len(in_cursors) : Contains(viewport, in_cursors[i]))
    => Contains(viewport, gen.visible_cursor)

\* C9 holds in forward mode
C9_ForwardOnly == ~inverted => C9_FullyVisible

\* The scan condition of closest_visible, as the claim states it
Hit(r, vp, inv) ==
    Contains(vp, r) \/ (~inv /\ Begin(vp) <= Begin(r)) \/ (inv /\ End(vp) <= End(r))

Expected(sel, vp, inv) ==
    IF sel = <<>> THEN None
    ELSE IF vp = None \/ Len(sel) = 1 THEN sel[1]
    ELSE LET hits == {i \in 1..Len(sel) : Hit(sel[i], vp, inv)}
         IN  IF hits = {} THEN sel[1]
             ELSE sel[CHOOSE i \in hits : \A j \in hits : i <= j]

ResultOk(sel, vp, inv) ==
    LET r == closest_visible(sel, vp, inv)
    IN  /\ r = Expected(sel, vp, inv)
        /\ (r = None) <=> (sel = <<>>)
        /\ r # None => IsIn(r, sel)

Ordered(s) == \A i \in 1..(Len(s) - 1) : End(s[i]) <= Begin(s[i + 1]) /\ s[i] # s[i + 1]

Malformed == ~Ordered(in_cursors) \/ ~Ordered(in_matches)

Max(a, b) == IF a >= b THEN a ELSE b

\* C7 (as claimed): on malformed input (unsorted or overlapping cursors or
\* matches) the call raises the loop-limit error; it does not return.
C7_MalformedRaises ==
    (Malformed /\ Len(in_matches) > 0) => gen.pc # "returned"

\* C7 (amended): on malformed input the call neither loops forever nor
\* raises because of the disorder: every assignment but a final wraparound
\* pops at least one cursor, so at most max(1, |cursors|) assignments are
\* yielded; the loop-limit error is raised only with the counter used up,
\* never while |matches| + 2 * |cursors| is below the guard's limit; otherwise
\* the call returns its assignments.
C7_MalformedReturns ==
    (Malformed /\ Len(in_matches) > 0) =>
        /\ Len(gen.out) <= Max(1, Len(in_cursors))
        /\ \A i \in 1..Len(gen.out) :
              (Len(in_cursors) > 0 /\ ~(i = Len(gen.out) /\ gen.resume = "return"))
                  => Len(gen.replaced[i]) > 0
        /\ gen.pc = "raised" => gen.limit = 0
        /\ Len(in_matches) + 2 * Len(in_cursors) < InitialLimit(impl) => gen.pc # "raised"
        /\ gen.pc = "suspended" => GenNext(impl, gen, inverted).pc # "raised"
              \/ Len(in_matches) + 2 * Len(in_cursors) >= InitialLimit(impl)

\* C7 witness: unsorted matches, and the call returned two assignments
C7_Witness ==
    /\ ~Ordered(in_matches) /\ Returned
    /\ Len(in_cursors) = 2 /\ Len(gen.out) = 2

\* ----------------------------------------------------------- claims 11-20
\* C11: with an empty match list the generator (cursor_to_matches and
\* Search._next alike) returns at its first resumption without yielding,
\* whatever the cursors, the viewport, the direction and the preview flag;
\* and Search.next on a view without stored matches returns leaving the
\* selection and the visible region as they were.
C11_EmptyMatches ==
    /\ (gen.pc # "created" /\ Len(in_matches) = 0) => (Returned /\ gen.out = <<>>)
    /\ last.outcome = "noop" =>
          /\ stored = <<>>
          /\ view_sel = last.sel_before
          /\ visible = last.visible_before
          /\ \A preview \in BOOLEAN :
                LET run == RunToEnd("search", last.sel_before, stored, visible,
                                    last.inverted, preview)
                IN  run.pc = "returned" /\ run.out = <<>>

\* C11 witness: a real Search.next call returned on a view with two cursors
\* and no stored matches
C11_Witness ==
    /\ last.outcome = "noop" /\ last.update_cursors
    /\ Len(view_sel) = 2

\* C12: with no cursors and a non-empty match list the generator yields one
\* assignment {orig: None, region: the closest visible match of the
\* direction-ordered list, is_visible: True} and returns at the next
\* resumption; with the viewport (0, 15) and matches at 10 and 20 the forward
\* target is the match at 10.
C12_NoCursorFallback ==
    /\ (gen.pc # "created" /\ Len(in_cursors) = 0 /\ Len(in_matches) > 0) =>
          /\ gen.pc \in {"suspended", "returned"}
          /\ gen.out = <<CursorMatch(None,
                                     Expected(Directed(in_matches, inverted), viewport, inverted),
                                     TRUE)>>
          /\ gen.pc = "suspended" =>
                GenNext(impl, gen, inverted) = [gen EXCEPT !.pc = "returned"]
    /\ LET run == RunToEnd(impl, <<>>, <<(<<10, 11>>), (<<20, 21>>)>>, <<0, 15>>, FALSE,
                           find_visible_only)
       IN  run.pc = "returned" /\ run.out = <<CursorMatch(None, <<10, 11>>, TRUE)>>

\* C12 witness: no cursors, and the forward fallback passed over the first
\* match, which lies before the viewport, to the second
C12_Witness ==
    /\ Returned /\ ~inverted /\ viewport # None
    /\ in_cursors = <<>> /\ Len(in_matches) = 2
    /\ Len(gen.out) = 1 /\ gen.out[1].region = in_matches[2]

\* The place in the ascending match list of the nearest match that begins
\* strictly after the cursor, 0 when there is none
FirstAfter(c) ==
    LET after == {k \in 1..Len(in_matches) : Begin(in_matches[k]) > Begin(c)}
    IN  IF after = {} THEN 0 ELSE CHOOSE k \in after : \A l \in after : k <= l

\* Every cursor has a nearest match strictly after it, a different one for
\* each cursor
OwnMatchEach ==
    /\ Len(in_cursors) > 0
    /\ \A i \in 1..Len(in_cursors) : FirstAfter(in_cursors[i]) # 0
    /\ \A i, j \in 1..Len(in_cursors) :
          i # j => FirstAfter(in_cursors[i]) # FirstAfter(in_cursors[j])

OneEach ==
    /\ Len(gen.out) = Len(in_cursors)
    /\ ~Wrapped
    /\ \A i \in 1..Len(in_cursors) :
          /\ gen.out[i].region = in_matches[FirstAfter(in_cursors[i])]
          /\ gen.replaced[i] = <<in_cursors[i]>>
          /\ impl = "helpers" => gen.out[i].orig = in_cursors[i]

\* C13 (as claimed): a forward real jump in which every cursor has a nearest
\* match strictly after it, different for each cursor, yields one assignment
\* per cursor in cursor order, the i-th from the i-th cursor to its match,
\* none of them the wraparound.
C13_SimpleForward ==
    (Returned /\ ~inverted /\ ~find_visible_only /\ OwnMatchEach) => OneEach

\* C13 holds when no cursor begins where a match begins (the case of C2)
C13_OnlyByC2 ==
    (Returned /\ ~inverted /\ ~find_visible_only /\ OwnMatchEach
        /\ \A i \in 1..Len(in_cursors), k \in 1..Len(in_matches) :
              Begin(in_cursors[i]) # Begin(in_matches[k]))
    => OneEach

\* C14: in preview mode (find_visible_only) with cursors and matches the
\* generator works on the closest visible cursor alone: it yields at most
\* one assignment, and exactly one unless the loop guard raises; that one is
\* flagged visible and is either from the visible cursor (the source cursor
\* of cursor_to_matches) or the wraparound with no source cursor.
C14_PreviewOneCursor ==
    (find_visible_only /\ Len(in_cursors) > 0 /\ Len(in_matches) > 0 /\ gen.pc # "created") =>
        /\ Len(gen.out) <= 1
        /\ gen.visible_cursor = Expected(Directed(in_cursors, inverted), viewport, inverted)
        /\ gen.pc # "raised" =>
              /\ Len(gen.out) = 1
              /\ gen.out[1].is_visible
              /\ IF Wrapped
                 THEN gen.out[1].orig = None /\ gen.replaced[1] = <<>>
                 ELSE /\ gen.replaced[1] = <<gen.visible_cursor>>
                      /\ impl = "helpers" => gen.out[1].orig = gen.visible_cursor
              /\ gen.pc = "suspended" =>
                    GenNext(impl, gen, inverted) = [gen EXCEPT !.pc = "returned"]

\* C14 witness: a preview of two cursors whose one assignment comes from the
\* second cursor, the visible one
C14_Witness ==
    /\ Returned /\ find_visible_only /\ impl = "helpers" /\ ~Wrapped
    /\ Len(in_cursors) = 2 /\ Len(gen.out) = 1
    /\ gen.out[1].orig = in_cursors[2] /\ in_cursors[1] # in_cursors[2]

\* The positions of the carets of a selection
CaretPlaces(s) == {Begin(s[i]) : i \in 1..Len(s)}

\* A selection of carets only, ascending, no two at the same place
CaretsOnly(s) ==
    /\ \A i \in 1..Len(s) : Size(s[i]) = 0
    /\ \A i \in 1..(Len(s) - 1) : Begin(s[i]) < Begin(s[i + 1])

\* C15: a Search.next call with update_cursors = False (through next,
\* forwards, backwards or prev, with or without a viewport argument) leaves
\* the selection as it was; the one thing it does is view.show on the target
\* of the one assignment flagged visible, after which the view shows that
\* target's begin and has scrolled only if it did not contain the target.
C15_PreviewKeepsCursors ==
    (last.outcome \in {"returned", "raised"} /\ ~last.update_cursors) =>
        /\ view_sel = last.sel_before
        /\ last.outcome = "returned" =>
              /\ Cardinality(Visibles(last.out)) = 1
              /\ last.shown = VisibleTarget(last.out)
              /\ Size(visible) = Size(last.visible_before)
              /\ Begin(visible) <= Begin(last.shown) /\ Begin(last.shown) <= End(visible)
              /\ Contains(last.visible_before, last.shown) => visible = last.visible_before

\* C15 witness: a preview on a view with two cursors scrolled the view and
\* the two cursors are where they were
C15_Witness ==
    /\ last.outcome = "returned" /\ ~last.update_cursors
    /\ Len(view_sel) = 2
    /\ visible # last.visible_before

\* C17: after a Search.next call with update_cursors = True on a view with
\* stored matches, the selection consists of carets only, ascending, one at
\* the begin of the target of each yielded assignment and no other; it is not
\* empty and every caret is at the begin of a stored match; forward and
\* inverted.
C17_RealJumpResult ==
    (last.outcome = "returned" /\ last.update_cursors) =>
        /\ CaretsOnly(view_sel)
        /\ CaretPlaces(view_sel) = {Begin(last.out[k].region) : k \in 1..Len(last.out)}
        /\ Len(view_sel) > 0
        /\ CaretPlaces(view_sel) \subseteq {Begin(stored[k]) : k \in 1..Len(stored)}

\* C17 witness: an inverted real jump of two cursors to two matches
C17_Witness ==
    /\ last.outcome = "returned" /\ last.update_cursors /\ last.inverted
    /\ Len(last.sel_before) = 2 /\ Len(last.out) = 2 /\ Len(view_sel) = 2
    /\ view_sel # last.sel_before

\* C20 (as claimed): after as many real backward jumps in a row as there are
\* stored matches, started from one caret, the caret has been on the begin of
\* every match; the places it went to descend from jump to jump but for the
\* wrap from the first match to the last.
C20_BackwardReachesAll ==
    (Len(stored) > 0 /\ trail.n = Len(stored)) =>
        /\ {trail.path[i] : i \in 1..trail.n} = {Begin(stored[k]) : k \in 1..Len(stored)}
        /\ \A i \in 1..(trail.n - 1) :
              \/ trail.path[i + 1] < trail.path[i]
              \/ /\ trail.path[i] = Begin(stored[1])
                 /\ trail.path[i + 1] = Begin(stored[Len(stored)])

\* C20 holds when no two stored matches touch
C20_OnlyTouching ==
    (\A k \in 1..(Len(stored) - 1) : End(stored[k]) < Begin(stored[k + 1]))
    => C20_BackwardReachesAll

\* What a slot of the stack holds: the view and the regions of its mark
Slot(bm, character) ==
    LET mark == get_mark(bm, character)
    IN  [view |-> mark.view, regions |-> mark.regions]

EmptySlot == [view |-> NoMark.view, regions |-> NoMark.regions]

\* The number of views that hold a mark under the character
Holders(bm, character) == Cardinality({v \in Views : Len(bm[v][character]) >= 1})

\* The stack holds n marks, in its first n slots
Filled(bm, n) ==
    \A c \in 1..StackSlots : (Slot(bm, ALLOWED_MARKS[c]) # EmptySlot) <=> (c <= n)

\* C18 (as claimed): VieStack.pop on a stack of n >= 1 marks in its first n
\* slots ends without an error, returns the mark of the first slot and leaves
\* n - 1 marks, the former second to last, in the first n - 1 slots.
C18_PopGrabsTop ==
    \A n \in 1..StackSlots :
        (stack_last.op = "pop" /\ Filled(stack_last.before, n)) =>
            /\ ~stack_last.raised
            /\ [view |-> stack_last.result.view, regions |-> stack_last.result.regions]
                   = Slot(stack_last.before, ALLOWED_MARKS[1])
            /\ Filled(bookmarks, n - 1)
            /\ \A c \in 1..(n - 1) :
                  Slot(bookmarks, ALLOWED_MARKS[c]) = Slot(stack_last.before, ALLOWED_MARKS[c + 1])

\* What pop does on a stack with marks: it ends in the error, hands no mark
\* back and the stack still holds n marks, the former last one twice
C18_PopRaises ==
    \A n \in 1..StackSlots :
        (stack_last.op = "pop" /\ Filled(stack_last.before, n)) =>
            /\ stack_last.raised /\ stack_last.result = NoMark
            /\ Filled(bookmarks, n)
            /\ Slot(bookmarks, ALLOWED_MARKS[n]) = Slot(stack_last.before, ALLOWED_MARKS[n])
            /\ \A c \in 1..(n - 1) :
                  Slot(bookmarks, ALLOWED_MARKS[c]) = Slot(stack_last.before, ALLOWED_MARKS[c + 1])

\* C19: after k pushes and nothing else on a stack of StackSlots slots, the
\* first slot (the one peek reads) holds the latest push, slot i the i-th
\* latest for every i up to the smaller of k and StackSlots, each in one view
\* only, the slots after that hold nothing, and pushes older than the
\* StackSlots latest are gone.
C19_LatestN ==
    stack_hist.clean =>
        LET k == Len(stack_hist.pushed)
        IN  /\ \A i \in 1..StackSlots :
                  IF i <= k
                  THEN /\ Slot(bookmarks, ALLOWED_MARKS[i]) = stack_hist.pushed[k + 1 - i]
                       /\ Holders(bookmarks, ALLOWED_MARKS[i]) = 1
                  ELSE Holders(bookmarks, ALLOWED_MARKS[i]) = 0
            /\ k >= 1 => LET top == peek(bookmarks, FALSE)
                         IN  [view |-> top.view, regions |-> top.regions] = stack_hist.pushed[k]

\* C19 witness: one push more than the stack has slots, the first push from
\* another view than the second, so that the last slot shows which is gone
C19_Witness ==
    /\ stack_hist.clean
    /\ Len(stack_hist.pushed) = StackSlots + 1
    /\ stack_hist.pushed[1].view # stack_hist.pushed[2].view
    /\ Slot(bookmarks, ALLOWED_MARKS[StackSlots]) = stack_hist.pushed[2]

\* ----------------------------------------------------------- claims 21-30

\* C21: after as many real forward jumps in a row as there are stored
\* matches, started from one caret anywhere, the caret has been on the begin
\* of every match; the places it went to ascend from jump to jump but for the
\* wrap from the last match to the first.
C21_ForwardReachesAll ==
    (Len(stored) > 0 /\ trail_fwd.n = Len(stored)) =>
        /\ {trail_fwd.path[i] : i \in 1..trail_fwd.n} = {Begin(stored[k]) : k \in 1..Len(stored)}
        /\ \A i \in 1..(trail_fwd.n - 1) :
              \/ trail_fwd.path[i + 1] > trail_fwd.path[i]
              \/ /\ trail_fwd.path[i] = Begin(stored[Len(stored)])
                 /\ trail_fwd.path[i + 1] = Begin(stored[1])

\* C21 witness: two touching matches, both reached in two forward jumps of a
\* caret that stood between their begins, the second jump being the wrap
C21_Witness ==
    /\ Len(stored) = 2 /\ End(stored[1]) = Begin(stored[2])
    /\ trail_fwd.n = 2
    /\ trail_fwd.path = <<Begin(stored[2]), Begin(stored[1])>>

\* The assignments yielded by Stage 3 (all but a closing wraparound)
NonWrap == {i \in 1..Len(gen.out) : i < Len(gen.out) \/ gen.resume # "return"}

\* C22: among the assignments of one call that are not the wraparound, taken
\* in the order they were yielded: forward, each target begins strictly
\* after the target before it and each source cursor begins after the source
\* cursor before it; inverted, each target ends strictly before the target
\* before it; so no two of them have the same target.
C22_AdvancingTargets ==
    \A i \in NonWrap, j \in NonWrap :
        i < j =>
            /\ ~inverted => Begin(gen.out[j].region) > Begin(gen.out[i].region)
            /\ (~inverted /\ impl = "helpers") => Begin(gen.out[j].orig) > Begin(gen.out[i].orig)
            /\ inverted => End(gen.out[j].region) < End(gen.out[i].region)
            /\ gen.out[j].region # gen.out[i].region

\* C22 witness: an inverted call that yielded two assignments from Stage 3
C22_Witness ==
    /\ inverted /\ impl = "helpers"
    /\ Len(gen.out) = 2 /\ NonWrap = {1, 2}
    /\ gen.out[1].orig # None /\ gen.out[2].orig # None

\* C23: in a call of cursor_to_matches with cursors, every assignment of
\* Stage 3 has a batch of at least one cursor and carries the first cursor of
\* the batch as its source; an assignment without a source is the
\* wraparound, there is at most one, and nothing is yielded after it.
C23_NullSourceOnlyWrap ==
    (impl = "helpers" /\ Len(in_cursors) > 0) =>
        /\ \A i \in NonWrap :
              /\ Len(gen.replaced[i]) > 0
              /\ gen.out[i].orig = gen.replaced[i][1]
              /\ gen.out[i].orig # None
        /\ \A i \in 1..Len(gen.out) :
              gen.out[i].orig = None => (i = Len(gen.out) /\ i \notin NonWrap)
        /\ Cardinality({i \in 1..Len(gen.out) : gen.out[i].orig = None}) <= 1

\* C23 witness: the first cursor went to a match with itself as the source,
\* the second assignment is the wraparound and the call has returned
C23_Witness ==
    /\ impl = "helpers" /\ Returned
    /\ Len(gen.out) = 2
    /\ Len(gen.replaced[1]) = 1 /\ gen.out[1].orig = in_cursors[1]
    /\ gen.out[2].orig = None

\* The loop-guard counts made so far (limit.count() of cursor_to_matches)
\* and the outer iterations begun so far (limit -= 1 of Search._next)
Counts == InitialLimit(impl) - gen.limit

\* C24: on any input, unsorted or overlapping lists included, a call that
\* entered the merge loop resumes at most once per cursor: every Stage 3
\* assignment consumed at least one cursor and a wraparound ends the call.
\* Search._next begins at most |cursors| outer iterations and
\* cursor_to_matches counts its guard at most |matches| + 2 * |cursors|
\* times.
C24_MergeLoopBounded ==
    gen.loop_match # None =>
        /\ Len(gen.out) <= Len(in_cursors)
        /\ \A i \in NonWrap : Len(gen.replaced[i]) >= 1
        /\ SumLen(gen.replaced) + Len(gen.cursors) <= Len(in_cursors)
        /\ impl = "search" => Counts <= Len(in_cursors)
        /\ impl = "helpers" => Counts <= Len(in_matches) + 2 * Len(in_cursors)

\* C24 witness: a call on unsorted lists of two cursors and two matches that
\* returned after two outer iterations and one count less than the bound
C24_Witness ==
    /\ impl = "helpers" /\ Returned /\ Malformed
    /\ Len(in_cursors) = 2 /\ Len(in_matches) = 2
    /\ Len(gen.out) = 2
    /\ Counts = Len(in_matches) + 2 * Len(in_cursors) - 1

\* C25: when the search panel was cancelled after any on_change events, the
\* selection and the permanent highlight group are as they were when the
\* panel was opened, the view is where it was then and the temporary group
\* is empty; and after an on_change that found no match the view is where it
\* was when the panel was opened.
C25_CancelRestores ==
    /\ panel.phase = "cancelled" =>
          /\ view_sel = panel.sel_at_run
          /\ stored = panel.stored_at_run
          /\ visible = panel.viewport
          /\ temp_group = <<>>
    /\ (panel.phase = "open" /\ panel.search /\ panel.changed /\ panel.found_none) =>
          (visible = panel.viewport /\ view_sel = panel.sel_at_run)

\* C25 witness: a panel with a temporary search was cancelled after
\* on_change events, of which one scrolled the view and the last found nothing
C25_Witness ==
    /\ panel.phase = "cancelled" /\ panel.search
    /\ panel.changed /\ panel.scrolled /\ panel.found_none
    /\ Len(view_sel) > 0 /\ Len(stored) > 0

\* The views a ViewSearch was made for
Searched == {v \in Views : registry.all[v] # NoSearch}

\* C26: every view has at most one ViewSearch, the first one made for it,
\* and no two views share one; its direction is the one named by the latest
\* call for the view that named one (forward when none did); HighlightNext
\* with backwards = False jumps in that direction and with backwards = True
\* in the opposite one.
C26_OneSearchPerView ==
    /\ \A v \in Views : registry.all[v].id = reg_hist.first[v]
    /\ registry.made = Cardinality(Searched)
    /\ \A v \in Searched, w \in Searched : v # w => registry.all[v].id # registry.all[w].id
    /\ \A v \in Searched : registry.all[v].inverted = (reg_hist.named[v] = "backward")
    /\ cmd_last.cmd = "next" =>
          cmd_last.inverted = IF cmd_last.backwards THEN reg_hist.named[cur] # "backward"
                              ELSE reg_hist.named[cur] = "backward"

\* C26 witness: the second view was searched backward and the first forward;
\* HighlightNext in the second view, which names no direction, jumped backward
C26_Witness ==
    /\ Searched = Views
    /\ cur = ViewOrder[2]
    /\ reg_hist.named[ViewOrder[1]] = "forward" /\ reg_hist.named[ViewOrder[2]] = "backward"
    /\ cmd_last.cmd = "next" /\ ~cmd_last.backwards /\ cmd_last.inverted

\* C27 (as claimed): every region of the highlight group has a positive size,
\* whatever highlight and clear commands have run.
C27_StoredNeverEmpty ==
    \A i \in 1..Len(stored) : Size(stored[i]) > 0

\* C28: after any sequence of add_mark, delete_mark, push, update and
\* delete_all_marks in one window, at most one view holds regions under a
\* mark character, and get_mark returns that only copy.
C28_OneViewPerMark ==
    \A character \in 1..Len(ALLOWED_MARKS) :
        /\ Holders(bookmarks, character) <= 1
        /\ \A v \in Views :
              Len(bookmarks[v][character]) >= 1 =>
                  get_mark(bookmarks, character)
                      = [name |-> character, view |-> v, regions |-> bookmarks[v][character]]

\* A mark that another view held was added again, and only the new view holds it
C28_Witness ==
    /\ mark_last.op = "add_mark" /\ mark_last.moved
    /\ \E character \in 1..Len(ALLOWED_MARKS) :
          /\ Holders(bookmarks, character) = 1
          /\ get_mark(bookmarks, character).view = ViewOrder[2]

C30_OneUseListener ==
    /\ \A i \in 1..Len(regs) : regs[i].calls <= 1
    /\ \A w \in WindowIds :
          finder[w] # NoListener =>
              /\ finder[w] \in 1..Len(regs)
              /\ regs[finder[w]].window = w /\ regs[finder[w]].calls = 0
    /\ finder_last.op = "listen" =>
          IF finder_last.pending # NoListener
          THEN /\ finder_last.raised /\ finder_last.regs_kept
               /\ finder[finder_last.window] = finder_last.pending
          ELSE /\ ~finder_last.raised
               /\ finder[finder_last.window] = Len(regs)
    /\ finder_last.op = "on_open" =>
          /\ finder[finder_last.window] = NoListener
          /\ IF finder_last.pending # NoListener
             THEN /\ finder_last.called = finder_last.pending
                  /\ regs[finder_last.called].calls = 1
                  /\ regs[finder_last.called].got = finder_last.view
                  /\ finder_last.raised = regs[finder_last.called].raises
             ELSE /\ finder_last.called = NoListener /\ ~finder_last.raised
                  /\ finder_last.regs_kept

\* on_open called the pending callback of the second window, which raised,
\* and cleared that window's listener only
C30_Witness ==
    /\ finder_last.op = "on_open" /\ finder_last.raised
    /\ finder_last.called = 2 /\ Len(regs) = 2
    /\ regs[1].window # regs[2].window
    /\ finder[regs[1].window] = 1
    /\ finder[regs[2].window] = NoListener

====
